---- MODULE Spec2Model ----
(***************************************************************************)
(* Cache replacement policies of package lru: LRU (src/lru/lru.go), LRU-K  *)
(* (src/lru/lruk.go) and 2Q (src/lru/lru2q.go).  Each policy is an ordered *)
(* list (container/list) of entries plus an index from key to the list     *)
(* element holding that key.  A consumer selects exactly one policy; the   *)
(* variable policy records which one is driven.                            *)
(*                                                                         *)
(* Every method is an operator from the object (and the arguments) to the  *)
(* object after the call and what the call returned; a step applies one    *)
(* method to the object of the selected policy.  The claims are stated of  *)
(* the methods applied to every reachable object.                          *)
(***************************************************************************)
EXTENDS Integers, Sequences, FiniteSets, Bags

\* ------------------------------------------------------------- bounds
NumKeys == 3
NumVals == 2
MaxCap == 2
\* the largest capacity of a 2Q cache: three entries in one queue, so that
\* two are left in order when one is taken out
MaxCap2Q == 3
MaxK == 2
MaxCount == 1
\* how many non-positive arguments the constructors are tried with
NumBadArgs == 2

\* nil as a value (the v of "return nil, false")
NilVal == 0
Keys == 1..NumKeys
Vals == 1..NumVals

VARIABLES policy, lru, lruk, lru2q, touched, addRun, inserted, failed

vars == <<policy, lru, lruk, lru2q, touched, addRun, inserted, failed>>

\* ------------------------------------------------- container/list, maps
\* A list is a sequence of elements, front first.  An element is
\* [id, K, V]: id is the identity of the *list.Element, K and V the
\* fields of the entry its Value points to.

Ids(l) == {l[i].id : i \in DOMAIN l}

InList(l, e) == e \in Ids(l)

Elem(l, e) == l[CHOOSE i \in DOMAIN l : l[i].id = e]

BackTakesFront(l) == l[1]

Back(l) == l[Len(l)]

\* Back() of an empty list is nil
BackIsNil(l) == Len(l) = 0

ListRemove(l, e) == SelectSeq(l, LAMBDA x : x.id # e)

MoveToFrontStays(l, e) == l

MoveToFront(l, e) == IF InList(l, e) THEN <<Elem(l, e)>> \o ListRemove(l, e) ELSE l

PushBack(l, e, k, v) == l \o <<[id |-> e, K |-> k, V |-> v]>>

PushFront(l, e, k, v) == <<[id |-> e, K |-> k, V |-> v]>> \o l

SetValueKeeps(l, e, v) == l

SetValue(l, e, v) ==
  [i \in DOMAIN l |-> IF l[i].id = e THEN [l[i] EXCEPT !.V = v] ELSE l[i]]

\* the identity of a freshly allocated element: one no live element has
NewId(live) == CHOOSE i \in 1..(Cardinality(live) + 1) :
                  /\ i \notin live
                  /\ \A j \in 1..(i - 1) : j \in live

MapSet(m, k, x) == [y \in (DOMAIN m) \cup {k} |-> IF y = k THEN x ELSE m[y]]

MapDeleteKeeps(m, k) == m

MapDelete(m, k) == [y \in (DOMAIN m) \ {k} |-> m[y]]

EmptyMap == <<>>

\* A range over index m of list l calls OnEvicted with the entry of each
\* handle once, in an unspecified order: the bag of the <<K, V>> passed.
RangeCalls(l, m) ==
  LET kv(k) == <<Elem(l, m[k]).K, Elem(l, m[k]).V>>
  IN [e \in {kv(k) : k \in DOMAIN m} |-> Cardinality({k \in DOMAIN m : kv(k) = e})]

\* An element's identity is a pointer, of which only equality is observable:
\* Renumber names each element of l by its position (after off others), and
\* Reindex renames the handles of index m of list l (before renaming)
\* accordingly; a handle to no element of l becomes 0.
Renumber(l, off) == [i \in DOMAIN l |-> [l[i] EXCEPT !.id = off + i]]

Reindex(m, l, off) ==
  [k \in DOMAIN m |->
     IF InList(l, m[k]) THEN off + (CHOOSE i \in DOMAIN l : l[i].id = m[k]) ELSE 0]

\* What one call did: the object after it, Get's results, Len's result,
\* the entries displaced by capacity pressure, the OnEvicted invocations,
\* and whether the call dereferenced nil.
Res(c, ok, rv, n, displaced, calls, panic) ==
  [c |-> c, ok |-> ok, rv |-> rv, n |-> n, displaced |-> displaced,
   calls |-> calls, panic |-> panic]

Done(c) == Res(c, FALSE, NilVal, 0, EmptyBag, EmptyBag, FALSE)

\* ------------------------------------------------------------------ LRU
NewLRU(maxEntries) ==
  [MaxEntries |-> maxEntries, ll |-> <<>>, cache |-> EmptyMap]

LRUFullBeyond(c) == (c.MaxEntries > 0) /\ (Len(c.ll) > c.MaxEntries)

LRUFull(c) == (c.MaxEntries > 0) /\ (Len(c.ll) = c.MaxEntries)

LRUAdd(c, k, v) ==
  IF k \in DOMAIN c.cache
  THEN LET ee == c.cache[k]
       IN Done([c EXCEPT !.ll = SetValue(MoveToFront(c.ll, ee), ee, v)])
  ELSE LET full == LRUFull(c)
           b == Back(c.ll)
           ll1 == IF full THEN ListRemove(c.ll, b.id) ELSE c.ll
           cache1 == IF full THEN MapDelete(c.cache, b.K) ELSE c.cache
           e == NewId(Ids(ll1))
       IN Res([c EXCEPT !.ll = PushFront(ll1, e, k, v),
                        !.cache = MapSet(cache1, k, e)],
              FALSE, NilVal, 0,
              IF full THEN SetToBag({<<b.K, b.V>>}) ELSE EmptyBag, EmptyBag, FALSE)

LRUGet(c, k) ==
  IF k \in DOMAIN c.cache
  THEN LET ee == c.cache[k]
       IN Res([c EXCEPT !.ll = MoveToFront(c.ll, ee)],
              TRUE, Elem(c.ll, ee).V, 0, EmptyBag, EmptyBag, FALSE)
  ELSE Done(c)

LRURemove(c, k) ==
  IF k \in DOMAIN c.cache
  THEN Done([c EXCEPT !.ll = ListRemove(c.ll, c.cache[k]),
                      !.cache = MapDelete(c.cache, k)])
  ELSE Done(c)

LRULen(c) == Len(c.ll)

LRUClear(c) == Done([c EXCEPT !.ll = <<>>, !.cache = EmptyMap])

\* ---------------------------------------------------------------- LRU-K
\* "if maxHitting <= 0 { panic }": the constructor does not return
NewLRUKPanics(maxEntries, maxHitting) == maxHitting <= 0

\* nil is the set of the fields that hold nil; a nil map reads as empty.
NewLRUK(maxEntries, maxHitting) ==
  [MaxEntries |-> maxEntries, MaxHitting |-> maxHitting, OnEvicted |-> FALSE,
   ll |-> <<>>, count |-> EmptyMap, cache |-> EmptyMap, nil |-> {}]

LRUKMakeCacheOnly(c) ==
  IF "cache" \in c.nil
  THEN [c EXCEPT !.cache = EmptyMap, !.nil = @ \ {"cache"}]
  ELSE c

LRUKMake(c) ==
  IF "cache" \in c.nil
  THEN [c EXCEPT !.cache = EmptyMap, !.ll = <<>>, !.count = EmptyMap, !.nil = {}]
  ELSE c

LRUKFullBeyond(c) == (c.MaxEntries > 0) /\ (Len(c.ll) > c.MaxEntries)

LRUKFull(c) == (c.MaxEntries > 0) /\ (Len(c.ll) = c.MaxEntries)

\* count[k] after "if absent then 0" and "+= 1"
LRUKHit(c, k) == (IF k \in DOMAIN c.count THEN c.count[k] ELSE 0) + 1

LRUKAdmitLate(c, k) == ~(LRUKHit(c, k) <= c.MaxHitting)

LRUKAdmitEarly(c, k) == ~(LRUKHit(c, k) < c.MaxHitting - 1)

LRUKAdmit(c, k) == ~(LRUKHit(c, k) < c.MaxHitting)

LRUKAddKeepsCount(c0, k, v) ==
  LET c == LRUKMake(c0) IN
  IF k \in DOMAIN c.cache
  THEN LET ee == c.cache[k]
       IN Done([c EXCEPT !.ll = SetValue(MoveToFront(c.ll, ee), ee, v)])
  ELSE IF ~LRUKAdmit(c, k)
  THEN Done([c EXCEPT !.count = MapSet(c.count, k, LRUKHit(c, k))])
  ELSE LET full == LRUKFull(c)
           b == Back(c.ll)
           ll1 == IF full THEN ListRemove(c.ll, b.id) ELSE c.ll
           cache1 == IF full THEN MapDelete(c.cache, b.K) ELSE c.cache
           e == NewId(Ids(ll1))
       IN Res([c EXCEPT !.count = MapSet(c.count, k, LRUKHit(c, k)),
                        !.ll = PushFront(ll1, e, k, v),
                        !.cache = MapSet(cache1, k, e)],
              FALSE, NilVal, 0,
              IF full THEN SetToBag({<<b.K, b.V>>}) ELSE EmptyBag, EmptyBag, FALSE)

LRUKAdd(c0, k, v) ==
  LET c == LRUKMake(c0) IN
  IF k \in DOMAIN c.cache
  THEN LET ee == c.cache[k]
       IN [Done([c EXCEPT !.ll = SetValue(MoveToFront(c.ll, ee), ee, v)])
             EXCEPT !.panic = "ll" \in c.nil]
  ELSE IF "count" \in c.nil THEN [Done(c) EXCEPT !.panic = TRUE]
  ELSE IF ~LRUKAdmit(c, k)
  THEN Done([c EXCEPT !.count = MapSet(c.count, k, LRUKHit(c, k))])
  ELSE LET full == LRUKFull(c)
           b == Back(c.ll)
           ll1 == IF full THEN ListRemove(c.ll, b.id) ELSE c.ll
           cache1 == IF full THEN MapDelete(c.cache, b.K) ELSE c.cache
           e == NewId(Ids(ll1))
       IN IF "ll" \in c.nil \/ (full /\ BackIsNil(c.ll))
          THEN [Done(c) EXCEPT !.panic = TRUE]
          ELSE Res([c EXCEPT !.count = MapDelete(c.count, k),
                             !.ll = PushFront(ll1, e, k, v),
                             !.cache = MapSet(cache1, k, e)],
                   FALSE, NilVal, 0,
                   IF full THEN SetToBag({<<b.K, b.V>>}) ELSE EmptyBag, EmptyBag, FALSE)

LRUKGet(c, k) ==
  IF "cache" \in c.nil THEN Done(c)
  ELSE IF k \in DOMAIN c.cache
  THEN LET ee == c.cache[k]
       IN IF "ll" \in c.nil THEN [Done(c) EXCEPT !.panic = TRUE]
          ELSE Res([c EXCEPT !.ll = MoveToFront(c.ll, ee)],
                   TRUE, Elem(c.ll, ee).V, 0, EmptyBag, EmptyBag, FALSE)
  ELSE IF "count" \in c.nil THEN [Done(c) EXCEPT !.panic = TRUE]
  ELSE Done([c EXCEPT !.count = MapSet(c.count, k, LRUKHit(c, k))])

LRUKRemoveForgets(c, k) ==
  IF "cache" \in c.nil THEN Done(c)
  ELSE IF k \in DOMAIN c.cache
  THEN Done([c EXCEPT !.ll = ListRemove(c.ll, c.cache[k]),
                      !.cache = MapDelete(c.cache, k)])
  ELSE Done([c EXCEPT !.count = MapDelete(c.count, k)])

LRUKRemove(c, k) ==
  IF "cache" \in c.nil THEN Done(c)
  ELSE IF k \in DOMAIN c.cache
  THEN IF "ll" \in c.nil THEN [Done(c) EXCEPT !.panic = TRUE]
       ELSE Done([c EXCEPT !.ll = ListRemove(c.ll, c.cache[k]),
                           !.cache = MapDelete(c.cache, k)])
  ELSE Done(c)

LRUKLen(c) ==
  IF "cache" \in c.nil THEN Done(c)
  ELSE IF "ll" \in c.nil THEN [Done(c) EXCEPT !.panic = TRUE]
  ELSE [Done(c) EXCEPT !.n = Len(c.ll)]

LRUKClear(c) ==
  Res([c EXCEPT !.ll = <<>>, !.count = EmptyMap, !.cache = EmptyMap,
                !.nil = {"ll", "count", "cache"}],
      FALSE, NilVal, 0, EmptyBag,
      IF c.OnEvicted THEN RangeCalls(c.ll, c.cache) ELSE EmptyBag,
      FALSE)

\* ------------------------------------------------------------------- 2Q
\* fifo/qcount: the probation queue and its index; ll/cache: the main
\* (LRU) queue and its index.  Elements of both lists share one heap.
NewLRU2QPanicsBelowZero(maxEntries) == maxEntries < 0

\* "if maxEntries <= 0 { panic }": the constructor does not return
NewLRU2QPanics(maxEntries) == maxEntries <= 0

NewLRU2Q(maxEntries) ==
  [MaxEntries |-> maxEntries, OnEvicted |-> FALSE,
   ll |-> <<>>, fifo |-> <<>>, cache |-> EmptyMap, qcount |-> EmptyMap,
   nil |-> {}]

LRU2QMakeLRU(c) ==
  IF "cache" \in c.nil
  THEN [c EXCEPT !.cache = EmptyMap, !.ll = <<>>, !.nil = @ \ {"cache", "ll"}]
  ELSE c

LRU2QMakeFIFO(c) ==
  IF "qcount" \in c.nil
  THEN [c EXCEPT !.qcount = EmptyMap, !.fifo = <<>>, !.nil = @ \ {"qcount", "fifo"}]
  ELSE c

LRU2QMainFullBeyond(c) == Len(c.ll) > c.MaxEntries

LRU2QMainFull(c) == Len(c.ll) = c.MaxEntries

LRU2QFifoFullBeyond(c) == Len(c.fifo) > c.MaxEntries

LRU2QFifoFull(c) == Len(c.fifo) = c.MaxEntries

\* the value the entry promoted by Add(k, v) carries into the main queue
LRU2QPromotedValue(kv, v) == kv.V

\* "add the element into LRU": c is the object after the element was taken
\* out of the FIFO, kv the entry it held
LRU2QIntoLRU(c, k, kv) ==
  LET full == LRU2QMainFull(c)
      b == Back(c.ll)
      ll1 == IF full THEN ListRemove(c.ll, b.id) ELSE c.ll
      cache1 == IF full THEN MapDelete(c.cache, b.K) ELSE c.cache
      e == NewId(Ids(ll1) \cup Ids(c.fifo))
  IN IF "ll" \in c.nil \/ (full /\ BackIsNil(c.ll))
     THEN [Done(c) EXCEPT !.panic = TRUE]
     ELSE Res([c EXCEPT !.ll = PushFront(ll1, e, kv.K, kv.V),
                        !.cache = MapSet(cache1, k, e)],
              TRUE, kv.V, 0,
              IF full THEN SetToBag({<<b.K, b.V>>}) ELSE EmptyBag, EmptyBag, FALSE)

LRU2QAdd(c0, k, v) ==
  LET c == LRU2QMakeFIFO(LRU2QMakeLRU(c0)) IN
  IF k \in DOMAIN c.cache
  THEN LET ee == c.cache[k]
       IN [Done([c EXCEPT !.ll = SetValue(MoveToFront(c.ll, ee), ee, v)])
             EXCEPT !.panic = "ll" \in c.nil]
  ELSE IF k \in DOMAIN c.qcount
  THEN LET ee == c.qcount[k]
           kv == Elem(c.fifo, ee)
           c1 == [c EXCEPT !.fifo = ListRemove(c.fifo, ee),
                           !.qcount = MapDelete(c.qcount, k)]
       IN IF "fifo" \in c.nil THEN [Done(c) EXCEPT !.panic = TRUE]
          ELSE [LRU2QIntoLRU(c1, k, [kv EXCEPT !.V = LRU2QPromotedValue(kv, v)])
                  EXCEPT !.ok = FALSE, !.rv = NilVal]
  ELSE LET full == LRU2QFifoFull(c)
           b == Back(c.fifo)
           fifo1 == IF full THEN ListRemove(c.fifo, b.id) ELSE c.fifo
           qcount1 == IF full THEN MapDelete(c.qcount, b.K) ELSE c.qcount
           e == NewId(Ids(c.ll) \cup Ids(fifo1))
       IN IF "fifo" \in c.nil \/ (full /\ BackIsNil(c.fifo))
          THEN [Done(c) EXCEPT !.panic = TRUE]
          ELSE Res([c EXCEPT !.fifo = PushFront(fifo1, e, k, v),
                             !.qcount = MapSet(qcount1, k, e)],
                   FALSE, NilVal, 0,
                   IF full THEN SetToBag({<<b.K, b.V>>}) ELSE EmptyBag, EmptyBag, FALSE)

LRU2QGet(c, k) ==
  IF "cache" \notin c.nil /\ k \in DOMAIN c.cache
  THEN LET ee == c.cache[k]
       IN IF "ll" \in c.nil THEN [Done(c) EXCEPT !.panic = TRUE]
          ELSE Res([c EXCEPT !.ll = MoveToFront(c.ll, ee)],
                   TRUE, Elem(c.ll, ee).V, 0, EmptyBag, EmptyBag, FALSE)
  ELSE IF "qcount" \notin c.nil /\ k \in DOMAIN c.qcount
  THEN LET ee == c.qcount[k]
           kv == Elem(c.fifo, ee)
           c1 == [c EXCEPT !.fifo = ListRemove(c.fifo, ee),
                           !.qcount = MapDelete(c.qcount, k)]
       IN IF "fifo" \in c.nil THEN [Done(c) EXCEPT !.panic = TRUE]
          ELSE LRU2QIntoLRU(LRU2QMakeLRU(c1), k, kv)
  ELSE Done(c)

LRU2QRemoveMainOnly(c, k) ==
  IF "cache" \notin c.nil /\ k \in DOMAIN c.cache
  THEN Done([c EXCEPT !.ll = ListRemove(c.ll, c.cache[k]),
                      !.cache = MapDelete(c.cache, k)])
  ELSE Done(c)

LRU2QRemove(c, k) ==
  LET inLL == "cache" \notin c.nil /\ k \in DOMAIN c.cache
      c1 == IF inLL
            THEN [c EXCEPT !.ll = ListRemove(c.ll, c.cache[k]),
                           !.cache = MapDelete(c.cache, k)]
            ELSE c
      inFIFO == "qcount" \notin c1.nil /\ k \in DOMAIN c1.qcount
      c2 == IF inFIFO
            THEN [c1 EXCEPT !.fifo = ListRemove(c1.fifo, c1.qcount[k]),
                            !.qcount = MapDelete(c1.qcount, k)]
            ELSE c1
  IN IF (inLL /\ "ll" \in c.nil) \/ (inFIFO /\ "fifo" \in c.nil)
     THEN [Done(c) EXCEPT !.panic = TRUE]
     ELSE Done(c2)

LRU2QLen(c) ==
  LET n1 == IF "cache" \notin c.nil THEN Len(c.ll) ELSE 0
      n2 == IF "qcount" \notin c.nil THEN Len(c.fifo) ELSE 0
  IN IF ("cache" \notin c.nil /\ "ll" \in c.nil)
        \/ ("qcount" \notin c.nil /\ "fifo" \in c.nil)
     THEN [Done(c) EXCEPT !.panic = TRUE]
     ELSE [Done(c) EXCEPT !.n = n1 + n2]

LRU2QClearMainOnly(c) ==
  Res([c EXCEPT !.ll = <<>>, !.fifo = <<>>, !.cache = EmptyMap,
                !.qcount = EmptyMap, !.nil = {"ll", "fifo", "cache", "qcount"}],
      FALSE, NilVal, 0, EmptyBag,
      IF c.OnEvicted THEN RangeCalls(c.ll, c.cache) ELSE EmptyBag,
      FALSE)

LRU2QClear(c) ==
  Res([c EXCEPT !.ll = <<>>, !.fifo = <<>>, !.cache = EmptyMap,
                !.qcount = EmptyMap, !.nil = {"ll", "fifo", "cache", "qcount"}],
      FALSE, NilVal, 0, EmptyBag,
      IF c.OnEvicted
      THEN RangeCalls(c.ll, c.cache) (+) RangeCalls(c.fifo, c.qcount)
      ELSE EmptyBag,
      FALSE)

\* ------------------------------------------------------- constructors
\* what a constructor call yields: a cache, or no cache when it panicked
NoCache == [panicked |-> TRUE]

CallNewLRU(m) == NewLRU(m)

CallNewLRUK(m, h) == IF NewLRUKPanics(m, h) THEN NoCache ELSE NewLRUK(m, h)

CallNewLRU2Q(m) == IF NewLRU2QPanics(m) THEN NoCache ELSE NewLRU2Q(m)

\* ------------------------------------------------------ pointer names
LRUCanon(c) ==
  [c EXCEPT !.ll = Renumber(c.ll, 0), !.cache = Reindex(c.cache, c.ll, 0)]

LRUKCanon(c) ==
  [c EXCEPT !.ll = Renumber(c.ll, 0), !.cache = Reindex(c.cache, c.ll, 0)]

LRU2QCanon(c) ==
  [c EXCEPT !.ll = Renumber(c.ll, 0), !.cache = Reindex(c.cache, c.ll, 0),
            !.fifo = Renumber(c.fifo, Len(c.ll)),
            !.qcount = Reindex(c.qcount, c.fifo, Len(c.ll))]

\* ------------------------------------------------------------ history
\* touched: the keys in the order of their last touch (an Add, or a Get
\* that hit), most recent first.
Touch(t, k) == <<k>> \o SelectSeq(t, LAMBDA x : x # k)

\* ---------------------------------------------------------- LRU steps
LRUAddStep(k, v) ==
  /\ policy = "LRU"
  /\ lru' = LRUCanon(LRUAdd(lru, k, v).c)
  /\ touched' = Touch(touched, k)
  /\ UNCHANGED <<policy, lruk, lru2q, addRun, inserted, failed>>

LRUGetStep(k) ==
  /\ policy = "LRU"
  /\ LET r == LRUGet(lru, k)
     IN /\ lru' = LRUCanon(r.c)
        /\ touched' = IF r.ok THEN Touch(touched, k) ELSE touched
  /\ UNCHANGED <<policy, lruk, lru2q, addRun, inserted, failed>>

LRURemoveStep(k) ==
  /\ policy = "LRU"
  /\ lru' = LRUCanon(LRURemove(lru, k).c)
  /\ UNCHANGED <<policy, lruk, lru2q, touched, addRun, inserted, failed>>

LRULenStep ==
  /\ policy = "LRU"
  /\ UNCHANGED <<policy, lru, lruk, lru2q, touched, addRun, inserted, failed>>

LRUClearStep ==
  /\ policy = "LRU"
  /\ lru' = LRUCanon(LRUClear(lru).c)
  /\ UNCHANGED <<policy, lruk, lru2q, touched, addRun, inserted, failed>>

\* -------------------------------------------------------- LRU-K steps
\* addRun: whether every call since construction was an Add of one key,
\* that key, the value of the last such Add, and how many there were
\* (counted up to MaxRun).
MaxRun == MaxK + 1

NoRun == [valid |-> FALSE, k |-> 0, v |-> NilVal, n |-> 0]

RunAdd(a, k, v) ==
  IF a.valid /\ (a.n = 0 \/ a.k = k)
  THEN [valid |-> TRUE, k |-> k, v |-> v,
        n |-> IF a.n < MaxRun THEN a.n + 1 ELSE a.n]
  ELSE NoRun

\* failed: whether a call has panicked (a nil dereference)
LRUKAddStep(k, v) ==
  /\ policy = "LRUK"
  /\ LET r == LRUKAdd(lruk, k, v)
     IN /\ lruk' = LRUKCanon(r.c)
        /\ failed' = (failed \/ r.panic)
  /\ addRun' = RunAdd(addRun, k, v)
  /\ UNCHANGED <<policy, lru, lru2q, touched, inserted>>

\* the pending counter is capped at MaxCount
LRUKGetStep(k) ==
  /\ policy = "LRUK"
  /\ ("cache" \in lruk.nil \/ k \in DOMAIN lruk.cache \/ LRUKHit(lruk, k) <= MaxCount)
  /\ LET r == LRUKGet(lruk, k)
     IN /\ lruk' = LRUKCanon(r.c)
        /\ failed' = (failed \/ r.panic)
  /\ addRun' = NoRun
  /\ UNCHANGED <<policy, lru, lru2q, touched, inserted>>

LRUKRemoveStep(k) ==
  /\ policy = "LRUK"
  /\ LET r == LRUKRemove(lruk, k)
     IN /\ lruk' = LRUKCanon(r.c)
        /\ failed' = (failed \/ r.panic)
  /\ addRun' = NoRun
  /\ UNCHANGED <<policy, lru, lru2q, touched, inserted>>

LRUKLenStep ==
  /\ policy = "LRUK"
  /\ failed' = (failed \/ LRUKLen(lruk).panic)
  /\ addRun' = NoRun
  /\ UNCHANGED <<policy, lru, lruk, lru2q, touched, inserted>>

LRUKClearStep ==
  /\ policy = "LRUK"
  /\ LET r == LRUKClear(lruk)
     IN /\ lruk' = LRUKCanon(r.c)
        /\ failed' = (failed \/ r.panic)
  /\ addRun' = NoRun
  /\ UNCHANGED <<policy, lru, lru2q, touched, inserted>>

\* ----------------------------------------------------------- 2Q steps
\* For 2Q, touched holds the keys resident in main in the order of their
\* last touch (an Add, or a Get that hit), most recent first, and inserted
\* the keys resident in probation in the order they were put there, latest
\* first.
Among(t, S) == SelectSeq(t, LAMBDA x : x \in S)

LRU2QAddStep(k, v) ==
  /\ policy = "LRU2Q"
  /\ LET r == LRU2QAdd(lru2q, k, v)
         brandNew == k \notin (DOMAIN lru2q.cache) \cup (DOMAIN lru2q.qcount)
     IN /\ lru2q' = LRU2QCanon(r.c)
        /\ failed' = (failed \/ r.panic)
        /\ touched' = Among(Touch(touched, k), DOMAIN r.c.cache)
        /\ inserted' = Among(IF brandNew THEN <<k>> \o inserted ELSE inserted,
                             DOMAIN r.c.qcount)
  /\ UNCHANGED <<policy, lru, lruk, addRun>>

LRU2QGetStep(k) ==
  /\ policy = "LRU2Q"
  /\ LET r == LRU2QGet(lru2q, k)
     IN /\ lru2q' = LRU2QCanon(r.c)
        /\ failed' = (failed \/ r.panic)
        /\ touched' = Among(IF r.ok THEN Touch(touched, k) ELSE touched,
                            DOMAIN r.c.cache)
        /\ inserted' = Among(inserted, DOMAIN r.c.qcount)
  /\ UNCHANGED <<policy, lru, lruk, addRun>>

LRU2QRemoveStep(k) ==
  /\ policy = "LRU2Q"
  /\ LET r == LRU2QRemove(lru2q, k)
     IN /\ lru2q' = LRU2QCanon(r.c)
        /\ failed' = (failed \/ r.panic)
        /\ touched' = Among(touched, DOMAIN r.c.cache)
        /\ inserted' = Among(inserted, DOMAIN r.c.qcount)
  /\ UNCHANGED <<policy, lru, lruk, addRun>>

LRU2QLenStep ==
  /\ policy = "LRU2Q"
  /\ failed' = (failed \/ LRU2QLen(lru2q).panic)
  /\ UNCHANGED <<policy, lru, lruk, lru2q, touched, addRun, inserted>>

LRU2QClearStep ==
  /\ policy = "LRU2Q"
  /\ LET r == LRU2QClear(lru2q)
     IN /\ lru2q' = LRU2QCanon(r.c)
        /\ failed' = (failed \/ r.panic)
  /\ touched' = <<>>
  /\ inserted' = <<>>
  /\ UNCHANGED <<policy, lru, lruk, addRun>>

\* ------------------------------------------------------------- system
\* The objects are the ones the constructors return: a call that panics
\* yields none.
Init ==
  /\ policy \in {"LRU", "LRUK", "LRU2Q"}
  /\ lru \in {CallNewLRU(m) : m \in IF policy = "LRU" THEN 0..MaxCap ELSE {0}}
  /\ lruk \in {[c EXCEPT !.OnEvicted = f] :
                 c \in {CallNewLRUK(m, h) :
                          m \in IF policy = "LRUK" THEN 0..MaxCap ELSE {0},
                          h \in IF policy = "LRUK" THEN 0..MaxK ELSE {1}}
                       \ {NoCache},
                 f \in IF policy = "LRUK" THEN BOOLEAN ELSE {FALSE}}
  /\ lru2q \in {[c EXCEPT !.OnEvicted = f] :
                  c \in {CallNewLRU2Q(m) :
                           m \in IF policy = "LRU2Q" THEN 0..MaxCap2Q ELSE {1}}
                        \ {NoCache},
                  f \in IF policy = "LRU2Q" THEN BOOLEAN ELSE {FALSE}}
  /\ touched = <<>>
  /\ inserted = <<>>
  /\ failed = FALSE
  /\ addRun = [valid |-> TRUE, k |-> 0, v |-> NilVal, n |-> 0]

Next ==
  \/ \E k \in Keys, v \in Vals : LRUAddStep(k, v)
  \/ \E k \in Keys : LRUGetStep(k)
  \/ \E k \in Keys : LRURemoveStep(k)
  \/ LRULenStep
  \/ LRUClearStep
  \/ \E k \in Keys, v \in Vals : LRUKAddStep(k, v)
  \/ \E k \in Keys : LRUKGetStep(k)
  \/ \E k \in Keys : LRUKRemoveStep(k)
  \/ LRUKLenStep
  \/ LRUKClearStep
  \/ \E k \in Keys, v \in Vals : LRU2QAddStep(k, v)
  \/ \E k \in Keys : LRU2QGetStep(k)
  \/ \E k \in Keys : LRU2QRemoveStep(k)
  \/ LRU2QLenStep
  \/ LRU2QClearStep

Spec == Init /\ [][Next]_vars

\* A consumer that selected LRU-K drives only the LRU-K object, one that
\* selected 2Q only the 2Q object.
InitLRUK == Init /\ policy = "LRUK"

NextLRUK ==
  \/ \E k \in Keys, v \in Vals : LRUKAddStep(k, v)
  \/ \E k \in Keys : LRUKGetStep(k)
  \/ \E k \in Keys : LRUKRemoveStep(k)
  \/ LRUKLenStep
  \/ LRUKClearStep

SpecLRUK == InitLRUK /\ [][NextLRUK]_vars

InitLRU2Q == Init /\ policy = "LRU2Q"

NextLRU2Q ==
  \/ \E k \in Keys, v \in Vals : LRU2QAddStep(k, v)
  \/ \E k \in Keys : LRU2QGetStep(k)
  \/ \E k \in Keys : LRU2QRemoveStep(k)
  \/ LRU2QLenStep
  \/ LRU2QClearStep

SpecLRU2Q == InitLRU2Q /\ [][NextLRU2Q]_vars

\* ------------------------------------------------------------- claims
\* the <<key, value>> pairs of the entries a list holds
EntriesOf(l) == {<<l[i].K, l[i].V>> : i \in DOMAIN l}

KeysOf(l) == {l[i].K : i \in DOMAIN l}

\* the keys that were ever touched
Touched == {touched[i] : i \in DOMAIN touched}

\* C1: an LRU cache and an LRU-K cache built with MaxEntries > 0 never
\* hold more than MaxEntries entries, whatever calls were made.
C1_Capacity ==
  /\ lru.MaxEntries > 0 => LRULen(lru) <= lru.MaxEntries
  /\ lruk.MaxEntries > 0 => LRUKLen(lruk).n <= lruk.MaxEntries

\* a full bounded LRU cache after more keys were added than it holds
C1_Full ==
  /\ policy = "LRU"
  /\ lru.MaxEntries > 0
  /\ LRULen(lru) = lru.MaxEntries
  /\ Len(touched) > lru.MaxEntries

\* C2: in a 2Q cache the probation queue and the main queue each hold at
\* most MaxEntries entries, so Len() is at most 2 * MaxEntries.
C2_TwoQueueCapacity ==
  /\ Len(lru2q.fifo) <= lru2q.MaxEntries
  /\ Len(lru2q.ll) <= lru2q.MaxEntries
  /\ LRU2QLen(lru2q).n <= 2 * lru2q.MaxEntries

\* both queues of a 2Q cache are full
C2_BothFull ==
  /\ policy = "LRU2Q"
  /\ Len(lru2q.fifo) = lru2q.MaxEntries
  /\ Len(lru2q.ll) = lru2q.MaxEntries

\* C3: in a 2Q cache, in every reachable state and for every key and value,
\* Get(key) right after Add(key, v) returns (v, true): absent, in probation
\* or in main, the key's value is the one just added.
C3_AddThenGet ==
  policy = "LRU2Q" =>
    \A k \in Keys, v \in Vals :
      LET g == LRU2QGet(LRU2QAdd(lru2q, k, v).c, k)
      IN g.ok /\ g.rv = v

\* C4: in an LRU cache, in every reachable state, Get(k) right after
\* Add(k, v) returns (v, true), and Get of a key that was never added, or
\* that no entry of the list carries any more, reports a miss.
C4_RoundTrip ==
  policy = "LRU" =>
    /\ \A k \in Keys, v \in Vals :
         LET g == LRUGet(LRUAdd(lru, k, v).c, k)
         IN g.ok /\ g.rv = v
    /\ \A k \in Keys :
         (k \notin KeysOf(lru.ll) \/ k \notin Touched)
           => ~LRUGet(lru, k).ok /\ LRUGet(lru, k).rv = NilVal

\* a full LRU cache with a resident key, an evicted or removed key and a
\* key that was never added
C4_Cases ==
  /\ policy = "LRU"
  /\ lru.MaxEntries > 0
  /\ LRULen(lru) = lru.MaxEntries
  /\ \E k \in Keys : k \in DOMAIN lru.cache
  /\ \E k \in Keys : k \in Touched /\ k \notin DOMAIN lru.cache
  /\ \E k \in Keys : k \notin Touched
\* the resident key whose last touch (an Add, or a Get that hit) is the
\* oldest
LeastRecentlyTouched ==
  LET res == SelectSeq(touched, LAMBDA x : x \in DOMAIN lru.cache)
  IN res[Len(res)]

\* C5: in an LRU cache with capacity N > 0, Add of a non-resident key into a
\* full cache evicts exactly the least recently touched resident entry and
\* no other, and an Add that finds room or finds the key evicts nothing.
C5_EvictsLeastRecentlyTouched ==
  (policy = "LRU" /\ lru.MaxEntries > 0) =>
    \A k \in Keys, v \in Vals :
      LET r == LRUAdd(lru, k, v)
          pressed == k \notin DOMAIN lru.cache /\ LRULen(lru) = lru.MaxEntries
      IN IF pressed
         THEN /\ r.displaced = SetToBag({<<LeastRecentlyTouched,
                    Elem(lru.ll, lru.cache[LeastRecentlyTouched]).V>>})
              /\ DOMAIN r.c.cache =
                   (DOMAIN lru.cache \ {LeastRecentlyTouched}) \cup {k}
         ELSE /\ r.displaced = EmptyBag
              /\ DOMAIN r.c.cache = DOMAIN lru.cache \cup {k}

\* a full LRU cache of capacity 2 or more that has already lost an entry,
\* and a key that is not resident to add to it
C5_Pressed ==
  /\ policy = "LRU"
  /\ lru.MaxEntries >= 2
  /\ LRULen(lru) = lru.MaxEntries
  /\ Touched # DOMAIN lru.cache
  /\ \E k \in Keys : k \notin DOMAIN lru.cache

\* C6: from a fresh LRU-K cache with threshold K, after n >= 1 Adds of one
\* key and nothing else, Get of that key hits with the value last added
\* when n >= K and misses when n < K.
C6_AdmissionGate ==
  (policy = "LRUK" /\ addRun.valid /\ addRun.n >= 1) =>
    LET g == LRUKGet(lruk, addRun.k)
    IN IF addRun.n >= lruk.MaxHitting
       THEN g.ok /\ g.rv = addRun.v
       ELSE ~g.ok /\ g.rv = NilVal

\* K = 2 or more, and the key was added K times or more
C6_Admitted ==
  /\ policy = "LRUK"
  /\ lruk.MaxHitting >= 2
  /\ addRun.valid
  /\ addRun.n >= lruk.MaxHitting

\* C7: Remove of a resident key (2Q: resident in probation or in main):
\* the next Get of it misses, Len() is one less, OnEvicted is not called.
C7_RemoveResident ==
  /\ \A k \in DOMAIN lru.cache :
       LET r == LRURemove(lru, k)
       IN /\ ~LRUGet(r.c, k).ok
          /\ LRULen(r.c) = LRULen(lru) - 1
          /\ r.calls = EmptyBag
  /\ \A k \in DOMAIN lruk.cache :
       LET r == LRUKRemove(lruk, k)
       IN /\ ~LRUKGet(r.c, k).ok
          /\ LRUKLen(r.c).n = LRUKLen(lruk).n - 1
          /\ r.calls = EmptyBag
  /\ \A k \in (DOMAIN lru2q.cache) \cup (DOMAIN lru2q.qcount) :
       LET r == LRU2QRemove(lru2q, k)
       IN /\ ~LRU2QGet(r.c, k).ok
          /\ LRU2QLen(r.c).n = LRU2QLen(lru2q).n - 1
          /\ r.calls = EmptyBag

\* a 2Q cache with OnEvicted set, a key in probation and a key in main
C7_Resident ==
  /\ policy = "LRU2Q"
  /\ lru2q.OnEvicted
  /\ DOMAIN lru2q.cache # {}
  /\ DOMAIN lru2q.qcount # {}

\* C8: Remove of a key that is not resident changes nothing: keys, values,
\* the order of every queue, the pending counters and Len() stay as they
\* were.
C8_RemoveAbsent ==
  /\ \A k \in Keys \ DOMAIN lru.cache :
       LRURemove(lru, k).c = lru
  /\ \A k \in Keys \ DOMAIN lruk.cache :
       LRUKRemove(lruk, k).c = lruk
  /\ \A k \in Keys \ ((DOMAIN lru2q.cache) \cup (DOMAIN lru2q.qcount)) :
       LRU2QRemove(lru2q, k).c = lru2q

\* an LRU-K cache with a resident key and a pending counter of another
C8_Pending ==
  /\ policy = "LRUK"
  /\ DOMAIN lruk.cache # {}
  /\ \E k \in Keys : k \notin DOMAIN lruk.cache /\ k \in DOMAIN lruk.count

\* C9: with OnEvicted set, Clear() calls it exactly once for every entry
\* the lists held (2Q: probation and main) and for nothing else; then
\* Len() is 0 and Get of every key that was resident misses.
C9_Clear ==
  /\ lruk.OnEvicted =>
       LET r == LRUKClear(lruk)
       IN /\ r.calls = SetToBag(EntriesOf(lruk.ll))
          /\ BagCardinality(r.calls) = Len(lruk.ll)
          /\ LRUKLen(r.c).n = 0
          /\ \A k \in KeysOf(lruk.ll) : ~LRUKGet(r.c, k).ok
  /\ lru2q.OnEvicted =>
       LET r == LRU2QClear(lru2q)
       IN /\ r.calls = SetToBag(EntriesOf(lru2q.ll) \cup EntriesOf(lru2q.fifo))
          /\ BagCardinality(r.calls) = Len(lru2q.ll) + Len(lru2q.fifo)
          /\ LRU2QLen(r.c).n = 0
          /\ \A k \in KeysOf(lru2q.ll) \cup KeysOf(lru2q.fifo) :
               ~LRU2QGet(r.c, k).ok

\* a 2Q cache with OnEvicted set and entries in both queues
C9_Populated ==
  /\ policy = "LRU2Q"
  /\ lru2q.OnEvicted
  /\ Len(lru2q.ll) >= 1
  /\ Len(lru2q.fifo) >= 1
  /\ Len(lru2q.ll) + Len(lru2q.fifo) >= 3

\* C10: with OnEvicted set, the entries an Add or a promoting Get displaces
\* under capacity pressure are exactly the entries OnEvicted is called
\* with, once each.
C10_EvictionNotified ==
  /\ lruk.OnEvicted =>
       \A k \in Keys, v \in Vals :
         LRUKAdd(lruk, k, v).calls = LRUKAdd(lruk, k, v).displaced
  /\ lru2q.OnEvicted =>
       \A k \in Keys :
         /\ LRU2QGet(lru2q, k).calls = LRU2QGet(lru2q, k).displaced
         /\ \A v \in Vals :
              LRU2QAdd(lru2q, k, v).calls = LRU2QAdd(lru2q, k, v).displaced

\* ------------------------------------------------- claims C11 onwards
\* the keys resident in a 2Q cache, in probation or in main
Resident2Q == (DOMAIN lru2q.cache) \cup (DOMAIN lru2q.qcount)

\* the sequences of distinct keys of S, the empty one included
DistinctSeqs(S) ==
  {s \in UNION {[1..n -> S] : n \in 0..Cardinality(S)} :
     \A i, j \in DOMAIN s : i # j => s[i] # s[j]}

RECURSIVE LRU2QAddAll(_, _, _)
\* Add(ks[1], w); Add(ks[2], w); ... applied to c
LRU2QAddAll(c, ks, w) ==
  IF ks = <<>> THEN c
  ELSE LRU2QAddAll(LRU2QAdd(c, Head(ks), w).c, Tail(ks), w)

\* C11: in a 2Q cache of capacity N, after Add(key, v) of a key that is not
\* resident and a second touch of it (Add or Get), adding brand-new distinct
\* keys once each, however many, never evicts key and Get(key) hits; without
\* the second touch, adding N brand-new distinct keys evicts key and
\* Get(key) misses.
C11_PromotionProtects ==
  policy = "LRU2Q" =>
    \A k \in Keys \ Resident2Q, v \in Vals :
      LET brandNew == Keys \ (Resident2Q \cup {k})
          once == LRU2QAdd(lru2q, k, v).c
          twice == {LRU2QGet(once, k).c} \cup {LRU2QAdd(once, k, w).c : w \in Vals}
      IN /\ \A c \in twice, ks \in DistinctSeqs(brandNew), w \in Vals :
              LET r == LRU2QAddAll(c, ks, w)
              IN k \in KeysOf(r.ll) /\ LRU2QGet(r, k).ok
         /\ \A ks \in DistinctSeqs(brandNew), w \in Vals :
              Len(ks) = lru2q.MaxEntries =>
                LET r == LRU2QAddAll(once, ks, w)
                IN /\ k \notin KeysOf(r.ll) \cup KeysOf(r.fifo)
                   /\ ~LRU2QGet(r, k).ok

\* a 2Q cache of capacity 2 that was used and emptied again, so that a key
\* and two brand-new keys can be added to it
C11_RoomForPressure ==
  /\ policy = "LRU2Q"
  /\ lru2q.MaxEntries = 2
  /\ Resident2Q = {}
  /\ lru2q.nil # {}

\* the arguments the constructors are called with
CtorArgs == (1 - NumBadArgs)..(MaxCap + MaxK)

\* what the constructors do with every argument
CtorContract ==
  /\ \A m \in CtorArgs, h \in CtorArgs :
       IF h < 1
       THEN CallNewLRUK(m, h) = NoCache
       ELSE /\ CallNewLRUK(m, h) # NoCache
            /\ CallNewLRUK(m, h).MaxEntries = m
            /\ CallNewLRUK(m, h).MaxHitting = h
            /\ LRUKLen(CallNewLRUK(m, h)) = [Done(CallNewLRUK(m, h)) EXCEPT !.n = 0]
  /\ \A m \in CtorArgs :
       IF m <= 0
       THEN CallNewLRU2Q(m) = NoCache
       ELSE /\ CallNewLRU2Q(m) # NoCache
            /\ CallNewLRU2Q(m).MaxEntries = m
            /\ LRU2QLen(CallNewLRU2Q(m)) = [Done(CallNewLRU2Q(m)) EXCEPT !.n = 0]
  /\ \A m \in CtorArgs :
       /\ CallNewLRU(m) # NoCache
       /\ CallNewLRU(m).MaxEntries = m
       /\ LRULen(CallNewLRU(m)) = 0

\* C12: NewLRUK with threshold k < 1 and NewLRU2Q with maxEntries <= 0 panic
\* and yield no cache; NewLRUK with k >= 1 and NewLRU2Q with maxEntries > 0
\* return an empty cache with the given configuration; NewLRU returns a
\* cache for every maxEntries, and with maxEntries = 0 the cache has no
\* limit: Add never evicts, and the cache holds one entry more after each
\* Add of a key it did not hold.
C12_Construction ==
  /\ CtorContract
  /\ (policy = "LRU" /\ lru.MaxEntries = 0) =>
       \A k \in Keys, v \in Vals :
         /\ LRUAdd(lru, k, v).displaced = EmptyBag
         /\ LRULen(LRUAdd(lru, k, v).c) =
              LRULen(lru) + (IF k \in KeysOf(lru.ll) THEN 0 ELSE 1)
  /\ lruk.MaxHitting >= 1
  /\ lru2q.MaxEntries > 0

\* an LRU cache built with maxEntries = 0 that holds every key
C12_NoLimit ==
  /\ policy = "LRU"
  /\ lru.MaxEntries = 0
  /\ KeysOf(lru.ll) = Keys

\* C13: on an LRU-K or 2Q cache obtained from its constructor, in every
\* reachable state (the states after Clear() included) every call of Add,
\* Get, Remove, Len and Clear completes: it dereferences no nil list, map or
\* element, and an eviction finds a back element.
C13_NeverFails == ~failed

\* an LRU-K cache right after Clear(): its list and both maps are nil
C13_Cleared ==
  /\ policy = "LRUK"
  /\ lruk.MaxEntries >= 1
  /\ lruk.nil = {"ll", "count", "cache"}

\* the pending counter of k, 0 when it has none
Pending(c, k) == IF k \in DOMAIN c.count THEN c.count[k] ELSE 0

\* C15: in an LRU-K cache, in every reachable state (the states after
\* Clear() included), Get(key) of a non-resident key reports a miss and
\* leaves the key's pending counter one higher (1 if it had none), so that
\* an Add that follows admits the key once the counted accesses reach K.
C15_GetCounts ==
  policy = "LRUK" =>
    \A k \in Keys \ DOMAIN lruk.cache :
      LET g == LRUKGet(lruk, k)
      IN /\ ~g.ok
         /\ Pending(g.c, k) = Pending(lruk, k) + 1
         /\ (Pending(lruk, k) + 2 >= lruk.MaxHitting =>
               \A v \in Vals : LRUKGet(LRUKAdd(g.c, k, v).c, k).ok)

RECURSIVE LRUKAddTimes(_, _, _, _)
\* n times Add(k, v), applied to an LRU-K cache c
LRUKAddTimes(c, k, v, n) ==
  IF n = 0 THEN c ELSE LRUKAddTimes(LRUKAdd(c, k, v).c, k, v, n - 1)

\* C16 as stated: in an LRU-K cache, after Remove(key) the key has no
\* pending counter, so that with K >= 2 one Add after it leaves the key
\* non-resident.
C16_RemoveDestroysCounter ==
  policy = "LRUK" =>
    \A k \in Keys :
      LET r == LRUKRemove(lruk, k).c
      IN /\ k \notin DOMAIN r.count
         /\ lruk.MaxHitting >= 2 =>
              \A v \in Vals : ~LRUKGet(LRUKAdd(r, k, v).c, k).ok

\* C16 as amended: after Remove(key) of a resident key the key has no
\* pending counter, and it takes K Adds again before Get(key) hits;
\* Remove(key) of a key that is not resident leaves its counter as it was.
C16_RemoveResidentNoCounter ==
  policy = "LRUK" =>
    /\ \A k \in DOMAIN lruk.cache :
         LET r == LRUKRemove(lruk, k).c
         IN /\ k \notin DOMAIN r.count
            /\ \A n \in 1..lruk.MaxHitting, v \in Vals :
                 LRUKGet(LRUKAddTimes(r, k, v, n), k).ok <=> (n = lruk.MaxHitting)
    /\ \A k \in Keys \ DOMAIN lruk.cache :
         Pending(LRUKRemove(lruk, k).c, k) = Pending(lruk, k)

\* an LRU-K cache with K = 2 that holds a key, while another key has
\* been counted once
C16_ResidentAndCounted ==
  /\ policy = "LRUK"
  /\ lruk.MaxHitting = 2
  /\ \E k \in DOMAIN lruk.cache : \E j \in Keys \ {k} : Pending(lruk, j) = 1

\* the <<key, value>> pairs of a list, front first
KV(l) == [i \in DOMAIN l |-> <<l[i].K, l[i].V>>]

KeySeq(l) == [i \in DOMAIN l |-> l[i].K]

\* l without its back entry
Front(l) == SubSeq(l, 1, Len(l) - 1)

\* what the call that returned r did to key k, resident in probation
\* before it
Promoted(k, r) ==
  LET full == Len(lru2q.ll) = lru2q.MaxEntries
  IN /\ k \notin DOMAIN r.c.qcount
     /\ KV(r.c.fifo) = SelectSeq(KV(lru2q.fifo), LAMBDA x : x[1] # k)
     /\ k \in DOMAIN r.c.cache
     /\ InList(r.c.ll, r.c.cache[k])
     /\ Head(r.c.ll).id = r.c.cache[k]
     /\ Head(r.c.ll).K = k
     /\ Tail(KV(r.c.ll)) = IF full THEN Front(KV(lru2q.ll)) ELSE KV(lru2q.ll)
     /\ r.displaced = IF full THEN SetToBag({KV(lru2q.ll)[Len(lru2q.ll)]})
                              ELSE EmptyBag
     /\ full => Back(lru2q.ll).K = touched[Len(touched)]

\* C17: in a 2Q cache, Add or Get of a key resident in probation takes it
\* out of the probation queue and its index and puts it at the front of the
\* main queue; if main held MaxEntries entries, exactly main's back entry,
\* the least recently touched one, is evicted first; the other probation
\* entries keep their order and the other main entries keep theirs.
C17_Promotion ==
  policy = "LRU2Q" =>
    \A k \in DOMAIN lru2q.qcount :
      /\ Promoted(k, LRU2QGet(lru2q, k))
      /\ \A v \in Vals : Promoted(k, LRU2QAdd(lru2q, k, v))

\* a 2Q cache with a key in probation whose main queue is full, and one
\* with three keys in probation
C17_FullMain ==
  /\ policy = "LRU2Q"
  /\ \/ lru2q.MaxEntries = 2 /\ Len(touched) = 2 /\ Len(inserted) = 1
     \/ lru2q.MaxEntries = 3 /\ Len(inserted) = 3

\* the keys that lists l and m both hold come in the same order in both
OrderKept(l, m) ==
  SelectSeq(KeySeq(l), LAMBDA x : x \in KeysOf(m))
    = SelectSeq(KeySeq(m), LAMBDA x : x \in KeysOf(l))

\* C18: in a 2Q cache, Add of a brand-new key when probation holds
\* MaxEntries entries evicts the entry that was put into probation earliest
\* among those still there; that key is then in neither queue and Get of it
\* misses; main is unchanged; and no call of Add, Get or Remove changes the
\* order of the entries of probation.
C18_ProbationFIFO ==
  policy = "LRU2Q" =>
    /\ KeySeq(lru2q.fifo) = inserted
    /\ \A k \in Keys \ Resident2Q, v \in Vals :
         LET r == LRU2QAdd(lru2q, k, v)
             full == Len(lru2q.fifo) = lru2q.MaxEntries
             old == inserted[Len(inserted)]
         IN /\ r.c.ll = lru2q.ll /\ r.c.cache = lru2q.cache
            /\ KV(r.c.fifo) = <<(<<k, v>>)>> \o
                 (IF full THEN Front(KV(lru2q.fifo)) ELSE KV(lru2q.fifo))
            /\ full =>
                 /\ r.displaced = SetToBag({KV(lru2q.fifo)[Len(lru2q.fifo)]})
                 /\ KV(lru2q.fifo)[Len(lru2q.fifo)][1] = old
                 /\ old \notin (DOMAIN r.c.qcount) \cup (DOMAIN r.c.cache)
                 /\ old \notin KeysOf(r.c.fifo) \cup KeysOf(r.c.ll)
                 /\ ~LRU2QGet(r.c, old).ok
            /\ ~full => r.displaced = EmptyBag
    /\ \A k \in Keys :
         /\ OrderKept(lru2q.fifo, LRU2QGet(lru2q, k).c.fifo)
         /\ OrderKept(lru2q.fifo, LRU2QRemove(lru2q, k).c.fifo)
         /\ \A v \in Vals : OrderKept(lru2q.fifo, LRU2QAdd(lru2q, k, v).c.fifo)

\* a 2Q cache of capacity 2 with a full probation queue and a key that is
\* in neither queue
C18_FullProbation ==
  /\ policy = "LRU2Q"
  /\ lru2q.MaxEntries = 2
  /\ Len(inserted) = 2
  /\ Keys \ Resident2Q # {}

\* whether index m and list l hold the same keys, once each, each handle of
\* m referring to the entry of l that carries its key
Consistent(m, l) ==
  /\ DOMAIN m = KeysOf(l)
  /\ Cardinality(KeysOf(l)) = Len(l)
  /\ Cardinality(Ids(l)) = Len(l)
  /\ \A k \in DOMAIN m : InList(l, m[k]) /\ Elem(l, m[k]).K = k

\* C19: in a 2Q cache, in every reachable state, no key is in both the
\* probation index and the main index, and each index is consistent with
\* its list: same keys, no key twice in a list, each handle referring to
\* the entry that carries its key.
C19_IndexConsistent ==
  /\ (DOMAIN lru2q.cache) \cap (DOMAIN lru2q.qcount) = {}
  /\ Consistent(lru2q.cache, lru2q.ll)
  /\ Consistent(lru2q.qcount, lru2q.fifo)
  /\ Ids(lru2q.ll) \cap Ids(lru2q.fifo) = {}

\* a 2Q cache that holds every key, in main and in probation
C19_AllResident ==
  /\ policy = "LRU2Q"
  /\ Resident2Q = Keys
  /\ Len(lru2q.ll) >= 1
  /\ Len(lru2q.fifo) >= 1

\* C20: in an LRU-K cache, an Add of a non-resident key whose counter after
\* the increment is below K, and a Get that misses, leave Len(), the
\* resident keys, their values and their order as they were and evict
\* nothing; and no key has a pending counter while it is resident.
C20_PendingNotResident ==
  policy = "LRUK" =>
    /\ \A k \in Keys \ DOMAIN lruk.cache :
         /\ LET g == LRUKGet(lruk, k)
            IN /\ ~g.ok
               /\ KV(g.c.ll) = KV(lruk.ll)
               /\ DOMAIN g.c.cache = DOMAIN lruk.cache
               /\ LRUKLen(g.c).n = LRUKLen(lruk).n
               /\ g.displaced = EmptyBag
         /\ Pending(lruk, k) + 1 < lruk.MaxHitting =>
              \A v \in Vals :
                LET a == LRUKAdd(lruk, k, v)
                IN /\ KV(a.c.ll) = KV(lruk.ll)
                   /\ DOMAIN a.c.cache = DOMAIN lruk.cache
                   /\ LRUKLen(a.c).n = LRUKLen(lruk).n
                   /\ a.displaced = EmptyBag
                   /\ ~LRUKGet(a.c, k).ok
    /\ (DOMAIN lruk.cache) \cap (DOMAIN lruk.count) = {}

\* a full LRU-K cache with K = 2 and a key that was never counted
C20_FullAndUncounted ==
  /\ policy = "LRUK"
  /\ lruk.MaxHitting = 2
  /\ LRUKFull(lruk)
  /\ \E k \in Keys \ DOMAIN lruk.cache : Pending(lruk, k) = 0

\* ------------------------------------------------- LRU beside LRU-1
\* An LRU cache and an LRU-K cache with MaxHitting = 1, built with the same
\* MaxEntries, are driven by the same calls (policy = "BOTH").
InitBoth ==
  /\ policy = "BOTH"
  /\ \E m \in 0..MaxCap :
       /\ lru = CallNewLRU(m)
       /\ lruk = CallNewLRUK(m, 1)
  /\ lru2q = CallNewLRU2Q(1)
  /\ touched = <<>>
  /\ inserted = <<>>
  /\ failed = FALSE
  /\ addRun = NoRun

BothAddStep(k, v) ==
  /\ policy = "BOTH"
  /\ lru' = LRUCanon(LRUAdd(lru, k, v).c)
  /\ LET r == LRUKAdd(lruk, k, v)
     IN /\ lruk' = LRUKCanon(r.c)
        /\ failed' = (failed \/ r.panic)
  /\ UNCHANGED <<policy, lru2q, touched, addRun, inserted>>

\* the pending counter is capped at MaxCount
BothGetStep(k) ==
  /\ policy = "BOTH"
  /\ ("cache" \in lruk.nil \/ k \in DOMAIN lruk.cache \/ LRUKHit(lruk, k) <= MaxCount)
  /\ LET g == LRUGet(lru, k)
         r == LRUKGet(lruk, k)
     IN /\ lru' = LRUCanon(g.c)
        /\ lruk' = LRUKCanon(r.c)
        /\ failed' = (failed \/ r.panic)
  /\ UNCHANGED <<policy, lru2q, touched, addRun, inserted>>

BothRemoveStep(k) ==
  /\ policy = "BOTH"
  /\ lru' = LRUCanon(LRURemove(lru, k).c)
  /\ LET r == LRUKRemove(lruk, k)
     IN /\ lruk' = LRUKCanon(r.c)
        /\ failed' = (failed \/ r.panic)
  /\ UNCHANGED <<policy, lru2q, touched, addRun, inserted>>

BothLenStep ==
  /\ policy = "BOTH"
  /\ failed' = (failed \/ LRUKLen(lruk).panic)
  /\ UNCHANGED <<policy, lru, lruk, lru2q, touched, addRun, inserted>>

BothClearStep ==
  /\ policy = "BOTH"
  /\ lru' = LRUCanon(LRUClear(lru).c)
  /\ LET r == LRUKClear(lruk)
     IN /\ lruk' = LRUKCanon(r.c)
        /\ failed' = (failed \/ r.panic)
  /\ UNCHANGED <<policy, lru2q, touched, addRun, inserted>>

NextBoth ==
  \/ \E k \in Keys, v \in Vals : BothAddStep(k, v)
  \/ \E k \in Keys : BothGetStep(k)
  \/ \E k \in Keys : BothRemoveStep(k)
  \/ BothLenStep
  \/ BothClearStep

SpecBoth == InitBoth /\ [][NextBoth]_vars

\* C21: an LRU-K cache with K = 1 and an LRU cache with the same
\* MaxEntries, driven by the same calls, hold the same keys and values in
\* the same order after every step, and every Get and Len returns the same
\* from both.
C21_LRUIsLRU1 ==
  policy = "BOTH" =>
    /\ ~failed
    /\ KV(lruk.ll) = KV(lru.ll)
    /\ DOMAIN lruk.cache = DOMAIN lru.cache
    /\ LRUKLen(lruk).n = LRULen(lru)
    /\ \A k \in Keys :
         /\ LRUKGet(lruk, k).ok = LRUGet(lru, k).ok
         /\ LRUKGet(lruk, k).rv = LRUGet(lru, k).rv

\* both caches are full with two entries, and the LRU-K cache has counted
\* a Get that missed
C21_FullAndCounted ==
  /\ policy = "BOTH"
  /\ lru.MaxEntries = 2
  /\ LRULen(lru) = 2
  /\ DOMAIN lruk.count # {}
====
